---- MODULE Spec2Model ----
(***************************************************************************)
(* Model of dicomweb_client/session_utils.py: the four helpers that build  *)
(* or augment a requests.Session.                                          *)
(*                                                                         *)
(* Python values are tagged records so that None, True, a str and a tuple  *)
(* are pairwise different values.  A path is the sequence of its           *)
(* "/"-separated components; "~" and "$NAME" are components that           *)
(* os.path.expanduser / os.path.expandvars rewrite.                        *)
(***************************************************************************)
EXTENDS Integers, Sequences, FiniteSets, TLC

VARIABLES environ, fs, gcp_installed, adc, heap, last, calls

vars == <<environ, fs, gcp_installed, adc, heap, last, calls>>

\* Longest run of calls explored.
MaxOps == 3

----------------------------------------------------------------------------
\* Python values

None == [type |-> "NoneType"]

True == [type |-> "bool", val |-> TRUE]

Str(s) == [type |-> "str", val |-> s]

Tuple2(a, b) == [type |-> "tuple", val |-> <<a, b>>]

Obj(name) == [type |-> "object", val |-> name]

----------------------------------------------------------------------------
\* The inputs the calls are made with

HomeDir == <<"home", "u">>

CertDir == <<"etc", "certs">>

\* "~/ca.pem" and "$CERTDIR/ca.pem"; the second is a path that expansion
\* leaves as it is when CERTDIR is unset
Paths == { <<"~", "ca.pem">>, <<"$CERTDIR", "ca.pem">> }

PathArgs == {None} \cup { Str(p) : p \in Paths }

\* Files that may be present on disk
Files == { <<"home", "u", "ca.pem">>, <<"etc", "certs", "ca.pem">> }

\* os.environ: HOME is set; CERTDIR is unset, a directory, or "~"
Environs ==
    { [n \in {"HOME"} |-> HomeDir],
      [n \in {"HOME", "CERTDIR"} |-> IF n = "HOME" THEN HomeDir ELSE CertDir],
      [n \in {"HOME", "CERTDIR"} |-> IF n = "HOME" THEN HomeDir ELSE <<"~">>] }

AuthArgs == {None, Obj("auth1")}

Usernames == {"alice", "bob"}

Passwords == {"pw"}

Credentials == {Obj("cred1")}

AmbientCredentials == Obj("adc")

----------------------------------------------------------------------------
\* Path expansion and the existence check

\* The variable a "$NAME" component refers to ("" when it is no reference)
VarName(c) == IF c = "$CERTDIR" THEN "CERTDIR" ELSE IF c = "$HOME" THEN "HOME" ELSE ""

RECURSIVE expandvars(_, _)
\* os.path.expandvars: a reference to a set variable is replaced by its
\* value, a reference to an unset variable is left as it is
expandvars(env, path) ==
    IF path = <<>> THEN <<>>
    ELSE LET c == Head(path)
             rest == expandvars(env, Tail(path))
         IN IF VarName(c) \in DOMAIN env THEN env[VarName(c)] \o rest
            ELSE <<c>> \o rest

\* os.path.expanduser: only a leading "~" component is replaced, by $HOME
expanduser(env, path) ==
    IF path # <<>> /\ Head(path) = "~" /\ "HOME" \in DOMAIN env
    THEN env["HOME"] \o Tail(path)
    ELSE path

\* os.path.expanduser(os.path.expandvars(p))
Resolve(env, path) == expanduser(env, expandvars(env, path))

\* os.path.exists
exists(disk, path) == path \in disk

----------------------------------------------------------------------------
\* Sessions

\* requests.Session(): no auth, default verification, no client certificate
Session == [class |-> "Session", auth |-> None, verify |-> True, cert |-> None,
            credentials |-> None]

\* google.auth.transport.requests.AuthorizedSession(credentials)
AuthorizedSession(credentials) ==
    [Session EXCEPT !.class = "AuthorizedSession", !.credentials = credentials]

OSError(prefix, path) == [type |-> "OSError", msg |-> <<prefix, path>>]

ImportError == [type |-> "ImportError", msg |-> <<"pip install dicomweb-client[gcp]">>]

DefaultCredentialsError == [type |-> "DefaultCredentialsError", msg |-> <<>>]

\* Variant: the strategy is never stored on the session
create_session_from_auth_unassigned(auth) == Session

create_session_from_auth(auth) == [Session EXCEPT !.auth = auth]

\* Variant: the pair is built in the wrong order
create_session_from_user_pass_swapped(username, password) ==
    [Session EXCEPT !.auth = Tuple2(password, username)]

create_session_from_user_pass(username, password) ==
    [Session EXCEPT !.auth = Tuple2(username, password)]

\* Variant: the certificate block runs before the CA bundle block
add_certs_cert_first(env, disk, s, ca_bundle, cert) ==
    LET ca == IF ca_bundle = None THEN <<>> ELSE Resolve(env, ca_bundle.val)
        ce == IF cert = None THEN <<>> ELSE Resolve(env, cert.val)
        s1 == IF cert = None THEN s ELSE [s EXCEPT !.cert = Str(ce)]
        c1 == IF cert = None THEN <<>> ELSE <<ce>>
    IN IF cert # None /\ ~exists(disk, ce)
       THEN [session |-> s, checked |-> <<ce>>,
             err |-> OSError("Certificate file does not exist: ", ce)]
       ELSE IF ca_bundle # None /\ ~exists(disk, ca)
       THEN [session |-> s1, checked |-> c1 \o <<ca>>,
             err |-> OSError("CA bundle file does not exist: ", ca)]
       ELSE IF ca_bundle # None
       THEN [session |-> [s1 EXCEPT !.verify = Str(ca)], checked |-> c1 \o <<ca>>,
             err |-> None]
       ELSE [session |-> s1, checked |-> c1, err |-> None]

\* Variant: the fields receive the paths as passed, not the expanded ones
add_certs_unexpanded(env, disk, s, ca_bundle, cert) ==
    LET ca == IF ca_bundle = None THEN <<>> ELSE Resolve(env, ca_bundle.val)
        ce == IF cert = None THEN <<>> ELSE Resolve(env, cert.val)
        s1 == IF ca_bundle = None THEN s ELSE [s EXCEPT !.verify = ca_bundle]
        c1 == IF ca_bundle = None THEN <<>> ELSE <<ca>>
    IN IF ca_bundle # None /\ ~exists(disk, ca)
       THEN [session |-> s, checked |-> <<ca>>,
             err |-> OSError("CA bundle file does not exist: ", ca)]
       ELSE IF cert # None /\ ~exists(disk, ce)
       THEN [session |-> s1, checked |-> c1 \o <<ce>>,
             err |-> OSError("Certificate file does not exist: ", ce)]
       ELSE IF cert # None
       THEN [session |-> [s1 EXCEPT !.cert = cert], checked |-> c1 \o <<ce>>,
             err |-> None]
       ELSE [session |-> s1, checked |-> c1, err |-> None]

\* Variant: an absent argument resets its field to the default
add_certs_clear_absent(env, disk, s, ca_bundle, cert) ==
    LET ca == IF ca_bundle = None THEN <<>> ELSE Resolve(env, ca_bundle.val)
        ce == IF cert = None THEN <<>> ELSE Resolve(env, cert.val)
        s1 == IF ca_bundle = None THEN [s EXCEPT !.verify = True]
              ELSE [s EXCEPT !.verify = Str(ca)]
        c1 == IF ca_bundle = None THEN <<>> ELSE <<ca>>
    IN IF ca_bundle # None /\ ~exists(disk, ca)
       THEN [session |-> s, checked |-> <<ca>>,
             err |-> OSError("CA bundle file does not exist: ", ca)]
       ELSE IF cert # None /\ ~exists(disk, ce)
       THEN [session |-> s1, checked |-> c1 \o <<ce>>,
             err |-> OSError("Certificate file does not exist: ", ce)]
       ELSE IF cert # None
       THEN [session |-> [s1 EXCEPT !.cert = Str(ce)], checked |-> c1 \o <<ce>>,
             err |-> None]
       ELSE [session |-> [s1 EXCEPT !.cert = None], checked |-> c1, err |-> None]

\* Variant: the error messages are formatted with the paths as passed
add_certs_raw_message(env, disk, s, ca_bundle, cert) ==
    LET ca == IF ca_bundle = None THEN <<>> ELSE Resolve(env, ca_bundle.val)
        ce == IF cert = None THEN <<>> ELSE Resolve(env, cert.val)
        s1 == IF ca_bundle = None THEN s ELSE [s EXCEPT !.verify = Str(ca)]
        c1 == IF ca_bundle = None THEN <<>> ELSE <<ca>>
    IN IF ca_bundle # None /\ ~exists(disk, ca)
       THEN [session |-> s, checked |-> <<ca>>,
             err |-> OSError("CA bundle file does not exist: ", ca_bundle.val)]
       ELSE IF cert # None /\ ~exists(disk, ce)
       THEN [session |-> s1, checked |-> c1 \o <<ce>>,
             err |-> OSError("Certificate file does not exist: ", cert.val)]
       ELSE IF cert # None
       THEN [session |-> [s1 EXCEPT !.cert = Str(ce)], checked |-> c1 \o <<ce>>,
             err |-> None]
       ELSE [session |-> s1, checked |-> c1, err |-> None]

\* Variant: both paths are validated before either field is assigned
add_certs_atomic(env, disk, s, ca_bundle, cert) ==
    LET ca == IF ca_bundle = None THEN <<>> ELSE Resolve(env, ca_bundle.val)
        ce == IF cert = None THEN <<>> ELSE Resolve(env, cert.val)
        s1 == IF ca_bundle = None THEN s ELSE [s EXCEPT !.verify = Str(ca)]
        c1 == IF ca_bundle = None THEN <<>> ELSE <<ca>>
    IN IF ca_bundle # None /\ ~exists(disk, ca)
       THEN [session |-> s, checked |-> <<ca>>,
             err |-> OSError("CA bundle file does not exist: ", ca)]
       ELSE IF cert # None /\ ~exists(disk, ce)
       THEN [session |-> s, checked |-> c1 \o <<ce>>,
             err |-> OSError("Certificate file does not exist: ", ce)]
       ELSE IF cert # None
       THEN [session |-> [s1 EXCEPT !.cert = Str(ce)], checked |-> c1 \o <<ce>>,
             err |-> None]
       ELSE [session |-> s1, checked |-> c1, err |-> None]

\* Variant: a field that was already configured is kept, not overwritten
add_certs_first_write_wins(env, disk, s, ca_bundle, cert) ==
    LET ca == IF ca_bundle = None THEN <<>> ELSE Resolve(env, ca_bundle.val)
        ce == IF cert = None THEN <<>> ELSE Resolve(env, cert.val)
        s1 == IF ca_bundle = None \/ s.verify # True THEN s
              ELSE [s EXCEPT !.verify = Str(ca)]
        c1 == IF ca_bundle = None THEN <<>> ELSE <<ca>>
    IN IF ca_bundle # None /\ ~exists(disk, ca)
       THEN [session |-> s, checked |-> <<ca>>,
             err |-> OSError("CA bundle file does not exist: ", ca)]
       ELSE IF cert # None /\ ~exists(disk, ce)
       THEN [session |-> s1, checked |-> c1 \o <<ce>>,
             err |-> OSError("Certificate file does not exist: ", ce)]
       ELSE IF cert # None /\ s.cert = None
       THEN [session |-> [s1 EXCEPT !.cert = Str(ce)], checked |-> c1 \o <<ce>>,
             err |-> None]
       ELSE [session |-> s1, checked |-> c1 \o (IF cert = None THEN <<>> ELSE <<ce>>),
             err |-> None]

\* The outcome of add_certs_to_session on session value s: the session as
\* the call leaves it, the error raised (None when it returns), and the
\* paths handed to os.path.exists, in order.
add_certs_to_session(env, disk, s, ca_bundle, cert) ==
    LET ca == IF ca_bundle = None THEN <<>> ELSE Resolve(env, ca_bundle.val)
        ce == IF cert = None THEN <<>> ELSE Resolve(env, cert.val)
        s1 == IF ca_bundle = None THEN s ELSE [s EXCEPT !.verify = Str(ca)]
        c1 == IF ca_bundle = None THEN <<>> ELSE <<ca>>
    IN IF ca_bundle # None /\ ~exists(disk, ca)
       THEN [session |-> s, checked |-> <<ca>>,
             err |-> OSError("CA bundle file does not exist: ", ca)]
       ELSE IF cert # None /\ ~exists(disk, ce)
       THEN [session |-> s1, checked |-> c1 \o <<ce>>,
             err |-> OSError("Certificate file does not exist: ", ce)]
       ELSE IF cert # None
       THEN [session |-> [s1 EXCEPT !.cert = Str(ce)], checked |-> c1 \o <<ce>>,
             err |-> None]
       ELSE [session |-> s1, checked |-> c1, err |-> None]

\* Variant: the optional import happens only on the discovery path
create_session_from_gcp_credentials_late_import(installed, ambient, google_credentials) ==
    IF google_credentials # None
    THEN [session |-> AuthorizedSession(google_credentials), err |-> None,
          default_calls |-> 0]
    ELSE IF ~installed
    THEN [session |-> None, err |-> ImportError, default_calls |-> 0]
    ELSE IF ambient = None
    THEN [session |-> None, err |-> DefaultCredentialsError, default_calls |-> 1]
    ELSE [session |-> AuthorizedSession(ambient), err |-> None, default_calls |-> 1]

\* Variant: default credentials are looked up even when credentials are given
create_session_from_gcp_credentials_always_default(installed, ambient, google_credentials) ==
    IF ~installed
    THEN [session |-> None, err |-> ImportError, default_calls |-> 0]
    ELSE IF ambient = None
    THEN [session |-> None, err |-> DefaultCredentialsError, default_calls |-> 1]
    ELSE [session |-> AuthorizedSession(ambient), err |-> None, default_calls |-> 1]

\* The outcome of create_session_from_gcp_credentials: the session built
\* (None when it raises), the error raised, and how many times
\* google.auth.default was called.
create_session_from_gcp_credentials(installed, ambient, google_credentials) ==
    IF ~installed
    THEN [session |-> None, err |-> ImportError, default_calls |-> 0]
    ELSE IF google_credentials # None
    THEN [session |-> AuthorizedSession(google_credentials), err |-> None,
          default_calls |-> 0]
    ELSE IF ambient = None
    THEN [session |-> None, err |-> DefaultCredentialsError, default_calls |-> 1]
    ELSE [session |-> AuthorizedSession(ambient), err |-> None, default_calls |-> 1]

----------------------------------------------------------------------------
\* The state machine.  heap holds the sessions constructed so far, a
\* session's identity is its index; last is the most recent call: its
\* arguments, the identity it returned (0 when it raised) and its error;
\* calls is the log of the calls made so far (operation, arguments and the
\* identity returned).

NoCall == [op |-> "none", args |-> <<>>, ret |-> 0, err |-> None,
           checked |-> <<>>, default_calls |-> 0]

Init ==
    /\ environ \in Environs
    /\ fs \in SUBSET Files
    /\ gcp_installed \in BOOLEAN
    /\ adc \in {None, AmbientCredentials}
    /\ heap = <<>>
    /\ last = NoCall
    /\ calls = <<>>

Env == UNCHANGED <<environ, fs, gcp_installed, adc>>

CreateFromAuth(auth) ==
    /\ Len(calls) < MaxOps
    /\ heap' = Append(heap, create_session_from_auth(auth))
    /\ last' = [NoCall EXCEPT !.op = "create_session_from_auth",
                              !.args = <<auth>>, !.ret = Len(heap) + 1]
    /\ calls' = Append(calls, [op |-> last'.op, args |-> last'.args, ret |-> last'.ret])
    /\ Env

CreateFromUserPass(username, password) ==
    /\ Len(calls) < MaxOps
    /\ heap' = Append(heap, create_session_from_user_pass(username, password))
    /\ last' = [NoCall EXCEPT !.op = "create_session_from_user_pass",
                              !.args = <<username, password>>,
                              !.ret = Len(heap) + 1]
    /\ calls' = Append(calls, [op |-> last'.op, args |-> last'.args, ret |-> last'.ret])
    /\ Env

AddCerts(sid, ca_bundle, cert) ==
    /\ Len(calls) < MaxOps
    /\ sid \in DOMAIN heap
    /\ LET r == add_certs_to_session(environ, fs, heap[sid], ca_bundle, cert)
       IN /\ heap' = [heap EXCEPT ![sid] = r.session]
          /\ last' = [NoCall EXCEPT !.op = "add_certs_to_session",
                                    !.args = <<sid, ca_bundle, cert>>,
                                    !.ret = IF r.err = None THEN sid ELSE 0,
                                    !.err = r.err,
                                    !.checked = r.checked]
    /\ calls' = Append(calls, [op |-> last'.op, args |-> last'.args, ret |-> last'.ret])
    /\ Env

CreateFromGcp(google_credentials) ==
    /\ Len(calls) < MaxOps
    /\ LET r == create_session_from_gcp_credentials(gcp_installed, adc,
                                                    google_credentials)
       IN /\ heap' = IF r.err = None THEN Append(heap, r.session) ELSE heap
          /\ last' = [NoCall EXCEPT !.op = "create_session_from_gcp_credentials",
                                    !.args = <<google_credentials>>,
                                    !.ret = IF r.err = None THEN Len(heap) + 1 ELSE 0,
                                    !.err = r.err,
                                    !.default_calls = r.default_calls]
    /\ calls' = Append(calls, [op |-> last'.op, args |-> last'.args, ret |-> last'.ret])
    /\ Env

Next ==
    \/ \E auth \in AuthArgs : CreateFromAuth(auth)
    \/ \E u \in Usernames, p \in Passwords : CreateFromUserPass(u, p)
    \/ \E sid \in 1..MaxOps, ca \in PathArgs, ce \in PathArgs : AddCerts(sid, ca, ce)
    \/ \E c \in {None} \cup Credentials : CreateFromGcp(c)

Spec == Init /\ [][Next]_vars

----------------------------------------------------------------------------
\* Properties

IsAdd(c) == c.op = "add_certs_to_session"

\* The resolved form of a path argument of the call
Resolved(arg) == Resolve(environ, arg.val)

\* The path argument was given and its resolved form is on disk
Present(arg) == arg # None /\ exists(fs, Resolved(arg))

\* The path argument was given and its resolved form is not on disk
Missing(arg) == arg # None /\ ~exists(fs, Resolved(arg))

\* C1: a call of add_certs_to_session whose CA bundle path does not exist
\* raises the CA bundle error after checking that one path only (the
\* certificate path is never handed to os.path.exists, whatever it is), and
\* the session's cert and verify are what they were before the call.
C1_CaBundleMissingFailsFirst ==
    [][ (IsAdd(last') /\ Missing(last'.args[2])) =>
          LET sid == last'.args[1]
          IN /\ last'.err = OSError("CA bundle file does not exist: ",
                                    Resolved(last'.args[2]))
             /\ last'.ret = 0
             /\ last'.checked = <<Resolved(last'.args[2])>>
             /\ heap'[sid].cert = heap[sid].cert
             /\ heap'[sid].verify = heap[sid].verify ]_vars

\* A call with a missing CA bundle and a certificate that exists has failed
C1_Witness ==
    /\ IsAdd(last)
    /\ Missing(last.args[2])
    /\ Present(last.args[3])
    /\ last.err # None
    /\ heap[last.args[1]].cert = None

\* C2: a call of add_certs_to_session whose CA bundle and certificate both
\* exist sets verify and cert to the two expanded paths, returns the session
\* it was given, and changes nothing else: not the session's other fields,
\* not any other session.
C2_BothPresentAssignsBoth ==
    [][ (IsAdd(last') /\ Present(last'.args[2]) /\ Present(last'.args[3])) =>
          LET sid == last'.args[1]
          IN /\ last'.err = None
             /\ last'.ret = sid
             /\ heap' = [heap EXCEPT ![sid] =
                            [heap[sid] EXCEPT !.verify = Str(Resolved(last'.args[2])),
                                              !.cert = Str(Resolved(last'.args[3]))]] ]_vars

\* Both paths were given in a form that expansion changes, to two different
\* files, on the second of two sessions, which has an auth
C2_Witness ==
    /\ IsAdd(last)
    /\ Present(last.args[2]) /\ Present(last.args[3])
    /\ Resolved(last.args[2]) # last.args[2].val
    /\ Resolved(last.args[3]) # last.args[3].val
    /\ Resolved(last.args[2]) # Resolved(last.args[3])
    /\ last.ret = 2
    /\ heap[2].auth # None
    /\ heap[2].verify = Str(Resolved(last.args[2]))

\* C3: in add_certs_to_session an absent CA bundle leaves verify as it was,
\* an absent certificate leaves cert as it was, and with both absent the call
\* returns the session it was given with nothing changed.
C3_AbsentLeavesFieldUntouched ==
    [][ IsAdd(last') =>
          LET sid == last'.args[1]
          IN /\ last'.args[2] = None => heap'[sid].verify = heap[sid].verify
             /\ last'.args[3] = None => heap'[sid].cert = heap[sid].cert
             /\ (last'.args[2] = None /\ last'.args[3] = None) =>
                    /\ last'.err = None
                    /\ last'.ret = sid
                    /\ heap' = heap ]_vars

\* A call with both arguments absent on a session whose verify and cert had
\* been configured
C3_Witness ==
    /\ IsAdd(last)
    /\ last.args[2] = None /\ last.args[3] = None
    /\ last.ret = last.args[1]
    /\ heap[last.args[1]].verify # True
    /\ heap[last.args[1]].cert # None

\* C4: add_certs_to_session raises exactly when a given path, resolved, does
\* not exist, and the OSError it raises carries the resolved form of the
\* first such path (CA bundle before certificate) in its message.
C4_ErrorCarriesResolvedPath ==
    IsAdd(last) =>
        /\ Missing(last.args[2]) =>
               /\ last.err # None
               /\ last.err.type = "OSError"
               /\ last.err.msg[2] = Resolved(last.args[2])
        /\ (~Missing(last.args[2]) /\ Missing(last.args[3])) =>
               /\ last.err # None
               /\ last.err.type = "OSError"
               /\ last.err.msg[2] = Resolved(last.args[3])
        /\ (~Missing(last.args[2]) /\ ~Missing(last.args[3])) => last.err = None

\* A call failed on a path whose resolved form differs from the path passed
C4_Witness ==
    /\ IsAdd(last)
    /\ last.err # None
    /\ \E i \in {2, 3} :
          /\ Missing(last.args[i])
          /\ last.err.msg[2] = Resolved(last.args[i])
          /\ Resolved(last.args[i]) # last.args[i].val

IsGcp(c) == c.op = "create_session_from_gcp_credentials"

\* C5: create_session_from_gcp_credentials, when the google auth package
\* cannot be imported, raises ImportError and returns no session, with and
\* without credentials.
C5_GcpMissingDependency ==
    (IsGcp(last) /\ ~gcp_installed) =>
        /\ last.err # None
        /\ last.err.type = "ImportError"
        /\ last.ret = 0
        /\ \A i \in DOMAIN calls : IsGcp(calls[i]) => calls[i].ret = 0

\* A call that was given credentials failed for the missing package
C5_Witness ==
    /\ IsGcp(last)
    /\ ~gcp_installed
    /\ last.args[1] # None
    /\ last.err = ImportError

\* C6: create_session_from_gcp_credentials with credentials C and the
\* package importable returns a session that wraps C and does not call
\* google.auth.default; the default lookup happens only when the
\* credentials are absent.
C6_GcpWrapsGivenCredentials ==
    IsGcp(last) =>
        /\ (gcp_installed /\ last.args[1] # None) =>
               /\ last.err = None
               /\ last.ret = Len(heap)
               /\ heap[last.ret].credentials = last.args[1]
               /\ last.default_calls = 0
        /\ last.default_calls > 0 => last.args[1] = None

\* Credentials were given while ambient credentials were available too
C6_Witness ==
    /\ IsGcp(last)
    /\ gcp_installed
    /\ adc # None
    /\ last.args[1] # None
    /\ last.ret > 0
    /\ heap[last.ret].credentials = last.args[1]

IsUserPass(c) == c.op = "create_session_from_user_pass"

\* C7: create_session_from_user_pass(u, p) never raises and returns a
\* session that did not exist before, whose auth is the pair (u, p); the
\* sessions that existed are unchanged.
C7_UserPassAuthIsPair ==
    [][ IsUserPass(last') =>
          /\ last'.err = None
          /\ last'.ret = Len(heap) + 1
          /\ Len(heap') = Len(heap) + 1
          /\ SubSeq(heap', 1, Len(heap)) = heap
          /\ heap'[last'.ret].auth = Tuple2(last'.args[1], last'.args[2]) ]_vars

\* A second session was created from a username and a password
C7_Witness ==
    /\ IsUserPass(last)
    /\ last.ret = 2
    /\ heap[2].auth = Tuple2(last.args[1], last.args[2])
    /\ heap[1] # heap[2]

IsAuth(c) == c.op = "create_session_from_auth"

\* C8: create_session_from_auth(s) never raises and returns a session that
\* did not exist before, whose auth is s, for s an auth object and for s
\* absent; the sessions that existed are unchanged.
C8_AuthIsStrategy ==
    [][ IsAuth(last') =>
          /\ last'.err = None
          /\ last'.ret = Len(heap) + 1
          /\ Len(heap') = Len(heap) + 1
          /\ SubSeq(heap', 1, Len(heap)) = heap
          /\ heap'[last'.ret].auth = last'.args[1] ]_vars

\* One session was created without a strategy and then one with a strategy
C8_Witness ==
    /\ IsAuth(last)
    /\ last.ret = 2
    /\ last.args[1] # None
    /\ heap[2].auth = last.args[1]
    /\ IsAuth(calls[1]) /\ calls[1].args[1] = None /\ heap[1].auth = None

\* C9: a call of add_certs_to_session whose CA bundle exists and whose
\* certificate does not raises the certificate error, with verify already
\* set to the resolved CA bundle path and cert as it was before the call.
C9_NotAtomicOnCertError ==
    [][ (IsAdd(last') /\ Present(last'.args[2]) /\ Missing(last'.args[3])) =>
          LET sid == last'.args[1]
          IN /\ last'.err = OSError("Certificate file does not exist: ",
                                    Resolved(last'.args[3]))
             /\ last'.ret = 0
             /\ heap'[sid].verify = Str(Resolved(last'.args[2]))
             /\ heap'[sid].cert = heap[sid].cert ]_vars

\* The first call on a session failed on the certificate and left the CA
\* bundle behind in verify
C9_Witness ==
    /\ IsAdd(last)
    /\ Present(last.args[2]) /\ Missing(last.args[3])
    /\ last.err # None
    /\ Len(calls) = 2
    /\ heap[last.args[1]].verify = Str(Resolved(last.args[2]))
    /\ heap[last.args[1]].cert = None

\* The calls of add_certs_to_session on session sid that assigned verify
VerifyWrites(sid) ==
    { i \in DOMAIN calls : /\ IsAdd(calls[i])
                           /\ calls[i].args[1] = sid
                           /\ Present(calls[i].args[2]) }

\* The calls of add_certs_to_session on session sid that reached the
\* certificate check and passed it
CertWrites(sid) ==
    { i \in DOMAIN calls : /\ IsAdd(calls[i])
                           /\ calls[i].args[1] = sid
                           /\ ~Missing(calls[i].args[2])
                           /\ Present(calls[i].args[3]) }

Latest(S) == CHOOSE i \in S : \A j \in S : j <= i

\* The call that returned session sid as a new session
Creation(sid) == CHOOSE i \in DOMAIN calls : ~IsAdd(calls[i]) /\ calls[i].ret = sid

\* The auth the creating call assigns
CreationAuth(c) ==
    IF IsAuth(c) THEN c.args[1]
    ELSE IF IsUserPass(c) THEN Tuple2(c.args[1], c.args[2])
    ELSE None

\* C10: in every reachable state and for every session, verify is the
\* resolved CA bundle path of the latest add_certs_to_session call on it
\* that gave an existing CA bundle (True, the initial value, if there is
\* none), cert is the resolved certificate path of the latest call on it
\* that reached and passed the certificate check (None if there is none),
\* and auth is what the creating call assigned.
C10_LastWriteWins ==
    \A sid \in DOMAIN heap :
        /\ heap[sid].verify =
              IF VerifyWrites(sid) = {} THEN True
              ELSE Str(Resolved(calls[Latest(VerifyWrites(sid))].args[2]))
        /\ heap[sid].cert =
              IF CertWrites(sid) = {} THEN None
              ELSE Str(Resolved(calls[Latest(CertWrites(sid))].args[3]))
        /\ heap[sid].auth = CreationAuth(calls[Creation(sid)])

\* Two calls on one session assigned different CA bundles and different
\* certificates; the session holds those of the second
C10_Witness ==
    \E sid \in DOMAIN heap :
        \E i, j \in VerifyWrites(sid) \cap CertWrites(sid) :
            /\ i < j
            /\ j = Len(calls)
            /\ Resolved(calls[i].args[2]) # Resolved(calls[j].args[2])
            /\ Resolved(calls[i].args[3]) # Resolved(calls[j].args[3])
            /\ heap[sid].verify = Str(Resolved(calls[j].args[2]))
            /\ heap[sid].cert = Str(Resolved(calls[j].args[3]))
            /\ heap[sid].auth # None

====
